---- MODULE Spec2Model ----
(***************************************************************************)
(* Reader-based bzip2 streams (src/reader.rs): BzCompressor and            *)
(* BzDecompressor, both thin wrappers around Inner<R>, whose read() drives *)
(* a raw::Stream (the libbz2 bz_stream) from a scratch buffer refilled     *)
(* from an owned source.                                                   *)
(*                                                                         *)
(* Stage "c" is a BzCompressor, stage "d" a BzDecompressor.  Three         *)
(* arrangements are covered (cfg.mode):                                    *)
(*   "comp"      caller -> BzCompressor  -> source                         *)
(*   "decomp"    caller -> BzDecompressor -> source                        *)
(*   "roundtrip" caller -> BzDecompressor -> BzCompressor -> source        *)
(* One action is one step of the code: the entry of a read call, the       *)
(* refill at the top of the loop, the codec call with the status match and *)
(* the loop guard, and the hand-over of a result to whoever called.        *)
(*                                                                         *)
(* The codec (raw::Stream over libbz2) is outside src/reader.rs.  It is    *)
(* modelled by the status protocol of BZ2_bzCompress / BZ2_bzDecompress    *)
(* over a small block format:  BZ_HDR, then blocks BLK(n) d1 .. dn, then   *)
(* BZ_EOS, with each data byte b stored as 255 - b.                        *)
(***************************************************************************)
EXTENDS Integers, Sequences, FiniteSets, TLC

\* ------------------------------------------------------------- bounds ----
\* Longest plain input drawn for the source.
MaxLen == 3
\* Longest tail of foreign bytes appended to (or replacing the end of) a frame.
MaxJunk == 1
\* Longest destination slice the caller passes to read.
MaxDest == 2
\* Number of source reads that may fail with an I/O error.
MaxErrs == 1
\* Scratch capacity: buf.len() (32 * 1024 in the code), scaled down.
BufCap == 3
\* Block capacity of the compressor (nblockMAX of libbz2), scaled down.
nblockMAX == 1

\* ---------------------------------------------------------- constants ----
\* Status codes of libbz2 as named by ffi.
BZ_OK == 0
BZ_RUN_OK == 1
BZ_FINISH_OK == 3
BZ_STREAM_END == 4
BZ_SEQUENCE_ERROR == 0 - 1
BZ_PARAM_ERROR == 0 - 2
BZ_DATA_ERROR == 0 - 4
BZ_DATA_ERROR_MAGIC == 0 - 5
BZ_OUTBUFF_FULL == 0 - 8

\* Bytes of the block format.
BZ_HDR == 66
BZ_EOS == 23
BLK(n) == 100 + n

PlainBytes == {0, 1}
JunkBytes == {BZ_HDR, 255}

Min(a, b) == IF a < b THEN a ELSE b

Take(s, k) == SubSeq(s, 1, k)
Drop(s, k) == SubSeq(s, k + 1, Len(s))

SeqsUpTo(A, n) == UNION {[1..k -> A] : k \in 0..n}

\* Storage of one data byte inside a block, and its inverse.
Enc(b) == 255 - b
Dec(t) == 255 - t

\* -------------------------------------------------- codec: compression ----
\* Stream::new_compress: a fresh bz_stream after BZ2_bzCompressInit.
new_compress ==
  [mode |-> "RUNNING", state |-> "INPUT", block |-> <<>>, rl |-> <<>>,
   zbits |-> <<>>, blockNo |-> 1, expect |-> 0, tin |-> 0, tout |-> 0]

\* One codec call in flight: the stream, the input slice still unread, the room
\* left in the output slice, the bytes written so far, and the progress flags.
CallCtx(s, input, room) ==
  [s |-> s, in |-> input, room |-> room, out |-> <<>>, pin |-> FALSE, pout |-> FALSE]

\* copy_input_until_stop: take input bytes while the block has room; the byte
\* last taken stays pending in the run-length state (rl) until the next one.
RECURSIVE copy_input_until_stop(_)
copy_input_until_stop(x) ==
  IF Len(x.s.block) >= nblockMAX THEN x
  ELSE IF x.in = <<>> THEN x
  ELSE IF x.s.mode # "RUNNING" /\ x.s.expect = 0 THEN x
  ELSE copy_input_until_stop(
         [x EXCEPT !.s.block = @ \o x.s.rl,
                   !.s.rl = <<Head(x.in)>>,
                   !.s.tin = @ + 1,
                   !.s.expect = IF x.s.mode = "RUNNING" THEN @ ELSE @ - 1,
                   !.in = Tail(@),
                   !.pin = TRUE])

\* flush_RL followed by BZ2_compressBlock: the stream header before the first
\* block, the block if it holds anything, the trailer after the last block.
RECURSIVE EncAll(_)
EncAll(bs) == IF bs = <<>> THEN <<>> ELSE <<Enc(Head(bs))>> \o EncAll(Tail(bs))

BZ2_compressBlock(s, flush, is_last) ==
  LET blk == IF flush THEN s.block \o s.rl ELSE s.block
      hdr == IF s.blockNo = 1 THEN <<BZ_HDR>> ELSE <<>>
      body == IF blk = <<>> THEN <<>> ELSE <<BLK(Len(blk))>> \o EncAll(blk)
      trl == IF is_last THEN <<BZ_EOS>> ELSE <<>>
  IN [s EXCEPT !.block = blk,
               !.rl = IF flush THEN <<>> ELSE @,
               !.zbits = hdr \o body \o trl,
               !.state = "OUTPUT"]

\* prepare_new_block.
prepare_new_block(s) ==
  [s EXCEPT !.block = <<>>, !.blockNo = @ + 1, !.state = "INPUT"]

\* handle_compress: alternate between draining the compressed block into the
\* output slice and collecting input into the next block.
RECURSIVE handle_compress(_)
handle_compress(x) ==
  IF x.s.state = "OUTPUT"
  THEN LET k == Min(Len(x.s.zbits), x.room)
           y == [x EXCEPT !.out = @ \o Take(x.s.zbits, k),
                          !.room = @ - k,
                          !.s.zbits = Drop(@, k),
                          !.s.tout = @ + k,
                          !.pout = @ \/ (k > 0)]
       IN IF y.s.zbits # <<>> THEN y
          ELSE IF y.s.mode = "FINISHING" /\ y.s.expect = 0 /\ y.s.rl = <<>> THEN y
          ELSE handle_compress([y EXCEPT !.s = prepare_new_block(@)])
  ELSE LET y == copy_input_until_stop(x)
       IN IF y.s.mode # "RUNNING" /\ y.s.expect = 0
          THEN handle_compress(
                 [y EXCEPT !.s = BZ2_compressBlock(@, TRUE, y.s.mode = "FINISHING")])
          ELSE IF Len(y.s.block) >= nblockMAX
          THEN handle_compress([y EXCEPT !.s = BZ2_compressBlock(@, FALSE, FALSE)])
          ELSE y

CodecResult(x, rc) ==
  [s |-> x.s, rc |-> rc, out |-> x.out]

\* Stream::compress = BZ2_bzCompress with action Run or Finish.
compress(s, input, room, action) ==
  IF s.mode = "IDLE" THEN CodecResult(CallCtx(s, input, room), BZ_SEQUENCE_ERROR)
  ELSE IF s.mode = "RUNNING" /\ action = "Run"
  THEN LET y == handle_compress(CallCtx(s, input, room))
       IN CodecResult(y, IF y.pin \/ y.pout THEN BZ_RUN_OK ELSE BZ_PARAM_ERROR)
  ELSE IF action # "Finish"
  THEN CodecResult(CallCtx(s, input, room), BZ_SEQUENCE_ERROR)
  ELSE LET s1 == IF s.mode = "RUNNING"
                 THEN [s EXCEPT !.mode = "FINISHING", !.expect = Len(input)]
                 ELSE s
       IN IF s1.expect # Len(input)
          THEN CodecResult(CallCtx(s1, input, room), BZ_SEQUENCE_ERROR)
          ELSE LET y == handle_compress(CallCtx(s1, input, room))
               IN IF ~(y.pin \/ y.pout) THEN CodecResult(y, BZ_SEQUENCE_ERROR)
                  ELSE IF y.s.expect > 0 \/ y.s.rl # <<>> \/ y.s.zbits # <<>>
                  THEN CodecResult(y, BZ_FINISH_OK)
                  ELSE CodecResult([y EXCEPT !.s.mode = "IDLE"], BZ_STREAM_END)

\* ------------------------------------------------ codec: decompression ----
\* Stream::new_decompress: a fresh bz_stream after BZ2_bzDecompressInit.
new_decompress ==
  [state |-> "MAGIC", need |-> 0, tt |-> <<>>, tin |-> 0, tout |-> 0]

\* BZ2_decompress: parse the stream header, a block header or the trailer, and
\* the bytes of a block; returns when a block is decoded, the input runs out,
\* the stream ends or the bytes are not a stream.
RECURSIVE BZ2_decompress(_)
BZ2_decompress(x) ==
  IF x.in = <<>> THEN [x |-> x, r |-> BZ_OK]
  ELSE LET t == Head(x.in)
           y == [x EXCEPT !.in = Tail(@), !.s.tin = @ + 1]
       IN CASE x.s.state = "MAGIC" ->
                 IF t = BZ_HDR
                 THEN BZ2_decompress([y EXCEPT !.s.state = "BLKHDR"])
                 ELSE [x |-> y, r |-> BZ_DATA_ERROR_MAGIC]
            [] x.s.state = "BLKHDR" ->
                 IF t = BZ_EOS
                 THEN [x |-> [y EXCEPT !.s.state = "IDLE"], r |-> BZ_STREAM_END]
                 ELSE IF t \in {BLK(n) : n \in 1..nblockMAX}
                 THEN BZ2_decompress(
                        [y EXCEPT !.s.state = "DATA", !.s.need = t - BLK(0), !.s.tt = <<>>])
                 ELSE [x |-> y, r |-> BZ_DATA_ERROR]
            [] x.s.state = "DATA" ->
                 IF x.s.need = 1
                 THEN [x |-> [y EXCEPT !.s.state = "OUTPUT", !.s.need = 0,
                                       !.s.tt = @ \o <<Dec(t)>>],
                       r |-> BZ_OK]
                 ELSE BZ2_decompress(
                        [y EXCEPT !.s.need = @ - 1, !.s.tt = @ \o <<Dec(t)>>])

\* BZ2_bzDecompress.
RECURSIVE BZ2_bzDecompress(_)
BZ2_bzDecompress(x) ==
  IF x.s.state = "IDLE" THEN CodecResult(x, BZ_SEQUENCE_ERROR)
  ELSE IF x.s.state = "OUTPUT"
  THEN LET k == Min(Len(x.s.tt), x.room)
           y == [x EXCEPT !.out = @ \o Take(x.s.tt, k),
                          !.room = @ - k,
                          !.s.tt = Drop(@, k),
                          !.s.tout = @ + k]
       IN IF y.s.tt = <<>>
          THEN BZ2_bzDecompress([y EXCEPT !.s.state = "BLKHDR"])
          ELSE CodecResult(y, BZ_OK)
  ELSE LET p == BZ2_decompress(x)
       IN IF p.r = BZ_STREAM_END THEN CodecResult(p.x, p.r)
          ELSE IF p.x.s.state # "OUTPUT" THEN CodecResult(p.x, p.r)
          ELSE BZ2_bzDecompress(p.x)

\* Stream::decompress.
decompress(s, input, room) == BZ2_bzDecompress(CallCtx(s, input, room))

\* The whole compressed representation of a plain input: what the compressor
\* writes when it is given the input and then told to finish, with room to spare.
RECURSIVE FinishAll(_, _)
FinishAll(s, acc) ==
  LET res == compress(s, <<>>, BufCap, "Finish")
  IN IF res.rc = BZ_FINISH_OK THEN FinishAll(res.s, acc \o res.out)
     ELSE acc \o res.out

RECURSIVE RunAll(_, _, _)
RunAll(s, input, acc) ==
  IF input = <<>> THEN FinishAll(s, acc)
  ELSE LET res == compress(s, input, BufCap, "Run")
       IN RunAll(res.s, Drop(input, res.s.tin - s.tin), acc \o res.out)

Compressed(S) == RunAll(new_compress, S, <<>>)


\* ------------------------------------------------------------- state ----
Stages == {"c", "d"}

VARIABLES
  cfg,    \* the arrangement under test and the source's original content
  r,      \* the source R: the bytes it has left, the failures it may still report
  inner,  \* Inner<R> of each stage: stream, buf[..cap], cap, pos, done
  frame,  \* the read call in progress on each stage
  ended,  \* per stage: the codec has returned BZ_STREAM_END
  outp,   \* the bytes the caller has received so far
  hist    \* per stage: the bytes obtained from its source, the bytes its codec
          \* consumed, whether Finish was passed, whether a call failed in the codec

vars == <<cfg, r, inner, frame, ended, outp, hist>>

\* The reader the caller holds, and what a stage reads from.
Top == IF cfg.mode = "comp" THEN "c" ELSE "d"
Below(s) == IF s = "d" /\ cfg.mode = "roundtrip" THEN "c" ELSE "src"

\* io::Result<usize>, with the bytes written to the destination for Ok(n).
Ok(n) == [ok |-> TRUE, n |-> n, err |-> "none"]
Err(e) == [ok |-> FALSE, n |-> 0, err |-> e]

\* The fields and counters a caller can observe on a stage.
Snap(s) ==
  [pos |-> inner[s].pos, cap |-> inner[s].cap, done |-> inner[s].done,
   tin |-> inner[s].stream.tin, tout |-> inner[s].stream.tout,
   fin |-> hist[s].fin]

\* BzCompressor::new / BzDecompressor::new.
new(s) ==
  [stream |-> IF s = "c" THEN new_compress ELSE new_decompress,
   buf |-> <<>>, cap |-> 0, pos |-> 0, done |-> FALSE]

Idle ==
  [pc |-> "idle", dlen |-> 0, dest |-> <<>>, eof |-> FALSE, res |-> Ok(0),
   iters |-> 0, nsrc |-> 0, ncodec |-> 0, rc |-> 0, act |-> "none", early |-> 0,
   snap |-> [pos |-> 0, cap |-> 0, done |-> FALSE, tin |-> 0, tout |-> 0,
            fin |-> FALSE]]

Configs ==
  LET plain == SeqsUpTo(PlainBytes, MaxLen)
      direct == {[mode |-> m, orig |-> S, full |-> Compressed(S),
                  cut |-> 0, junk |-> <<>>, data |-> S] :
                   m \in {"comp", "roundtrip"}, S \in plain}
      tails(S, k) == SeqsUpTo(JunkBytes, IF k = Len(Compressed(S)) THEN MaxJunk
                                         ELSE Min(1, MaxJunk))
      cuts(S) == {[mode |-> "decomp", orig |-> S, full |-> Compressed(S),
                   cut |-> k, junk |-> <<>>, data |-> Take(Compressed(S), k)] : k \in 0..Len(Compressed(S))}
      framed == UNION {
                  {[c EXCEPT !.junk = g, !.data = @ \o g] : g \in tails(c.orig, c.cut)} :
                  c \in UNION {cuts(S) : S \in plain}}
      spliced == {[c EXCEPT !.junk = <<g>>, !.data = @ \o <<g>> \o Drop(c.full, c.cut)] :
                    c \in {x \in UNION {cuts(S) : S \in plain} : x.cut = Len(<<BZ_HDR>>)},
                    g \in JunkBytes}
  IN direct \cup framed \cup spliced

Init ==
  /\ cfg \in Configs
  /\ r = [rem |-> cfg.data, errs |-> MaxErrs]
  /\ inner = [s \in Stages |-> new(s)]
  /\ frame = [s \in Stages |-> Idle]
  /\ ended = [s \in Stages |-> FALSE]
  /\ outp = <<>>
  /\ hist = [s \in Stages |-> [pulled |-> <<>>, fed |-> <<>>, fin |-> FALSE, bad |-> FALSE]]

\* ------------------------------------------------- the read call, entry ----
\* Faulty variant: the zero-length guard left out.
ZeroLengthGuard_Missing(s, n) == FALSE

\* BzDecompressor::read punts a zero-length destination upstream.
ZeroLengthGuard(s, n) == s = "d" /\ n = 0

\* Faulty variant: the done flag not consulted on entry.
AlreadyDone_Ignored(s) == FALSE

\* Inner::read returns at once when the stream is done.
AlreadyDone(s) == inner[s].done

\* The frame of a read call on stage s with a destination of n bytes, up to the
\* top of the loop.
Entry(s, n) ==
  LET f == [Idle EXCEPT !.dlen = n, !.snap = Snap(s)]
  IN IF ZeroLengthGuard(s, n) THEN [f EXCEPT !.pc = "ret", !.res = Ok(0)]
     ELSE IF AlreadyDone(s) THEN [f EXCEPT !.pc = "ret", !.res = Ok(0)]
     ELSE [f EXCEPT !.pc = "loop"]

\* The caller calls read on the reader it holds.
Read(n) ==
  /\ frame[Top].pc = "idle"
  /\ frame' = [frame EXCEPT ![Top] = Entry(Top, n)]
  /\ UNCHANGED <<cfg, r, inner, ended, outp, hist>>

\* ------------------------------------------------------------- refill ----
\* if self.pos == self.cap
NeedsRefill(s) == inner[s].pos = inner[s].cap

\* What one source read may return: 0 at exhaustion, otherwise at least one
\* byte and at most the scratch capacity.
SourceReads == IF r.rem = <<>> THEN {0} ELSE 1..Min(BufCap, Len(r.rem))

\* The top of the loop with unread bytes in the scratch buffer.
NoRefill(s) ==
  /\ frame[s].pc = "loop"
  /\ ~NeedsRefill(s)
  /\ frame' = [frame EXCEPT ![s].pc = "codec", ![s].eof = FALSE, ![s].iters = @ + 1]
  /\ UNCHANGED <<cfg, r, inner, ended, outp, hist>>

\* Faulty variant: pos not reset by the refill.
Refilled_PosKept(s, bytes) ==
  [inner EXCEPT ![s].buf = bytes, ![s].cap = Len(bytes)]

\* self.cap = <bytes read>; self.pos = 0;
Refilled(s, bytes) ==
  [inner EXCEPT ![s].buf = bytes, ![s].cap = Len(bytes), ![s].pos = 0]

\* The refill from the source, succeeding with k bytes.
Refill(s) ==
  /\ frame[s].pc = "loop"
  /\ NeedsRefill(s)
  /\ Below(s) = "src"
  /\ \E k \in SourceReads :
       /\ inner' = Refilled(s, Take(r.rem, k))
       /\ r' = [r EXCEPT !.rem = Drop(@, k)]
       /\ hist' = [hist EXCEPT ![s].pulled = @ \o Take(r.rem, k)]
       /\ frame' = [frame EXCEPT ![s].pc = "codec", ![s].eof = (k = 0),
                                 ![s].iters = @ + 1, ![s].nsrc = @ + 1]
  /\ UNCHANGED <<cfg, ended, outp>>

\* Faulty variant: pos reset before the source read is known to have succeeded.
AfterFailedRead_PosReset(s) == [inner EXCEPT ![s].pos = 0]

\* Inner<R> after a source read that failed: try! returns before cap or pos
\* is assigned.
AfterFailedRead(s) == inner

\* The refill from the source, failing: try! returns the error.
RefillErr(s) ==
  /\ frame[s].pc = "loop"
  /\ NeedsRefill(s)
  /\ Below(s) = "src"
  /\ r.errs > 0
  /\ r' = [r EXCEPT !.errs = @ - 1]
  /\ inner' = AfterFailedRead(s)
  /\ frame' = [frame EXCEPT ![s].pc = "ret", ![s].res = Err("io"),
                            ![s].iters = @ + 1, ![s].nsrc = @ + 1]
  /\ UNCHANGED <<cfg, ended, outp, hist>>

\* The refill of the decompressor from the compressor it wraps: a read call on
\* the compressor with the whole scratch buffer as destination.
RefillCall(s) ==
  /\ frame[s].pc = "loop"
  /\ NeedsRefill(s)
  /\ Below(s) # "src"
  /\ frame' = [frame EXCEPT ![s].pc = "await", ![s].iters = @ + 1, ![s].nsrc = @ + 1,
                            ![Below(s)] = Entry(Below(s), BufCap)]
  /\ UNCHANGED <<cfg, r, inner, ended, outp, hist>>

\* ... and its return: the bytes on Ok(n), the error through try! otherwise.
RefillRet(s) ==
  /\ frame[s].pc = "await"
  /\ Below(s) # "src"
  /\ frame[Below(s)].pc = "ret"
  /\ LET b == frame[Below(s)]
     IN IF b.res.ok
        THEN /\ inner' = Refilled(s, Take(b.dest, b.res.n))
             /\ hist' = [hist EXCEPT ![s].pulled = @ \o Take(b.dest, b.res.n)]
             /\ frame' = [frame EXCEPT ![s].pc = "codec", ![s].eof = (b.res.n = 0),
                                       ![Below(s)] = Idle]
        ELSE /\ inner' = inner
             /\ hist' = [hist EXCEPT ![s].bad = @ \/ (b.res.err = "invalid")]
             /\ frame' = [frame EXCEPT ![s].pc = "ret", ![s].res = b.res,
                                       ![Below(s)] = Idle]
  /\ UNCHANGED <<cfg, r, ended, outp>>

\* ---------------------------------------------------------- codec call ----
\* Faulty variant: Finish never chosen.
SelectAction_AlwaysRun(eof) == "Run"

\* Faulty variant: the two branches exchanged.
SelectAction_Swapped(eof) == IF eof THEN "Run" ELSE "Finish"

\* let action = if eof {Action::Finish} else {Action::Run};
SelectAction(eof) == IF eof THEN "Finish" ELSE "Run"

\* Faulty variant: the whole scratch buffer passed, pos ignored.
InputSlice_FromStart(s) == SubSeq(inner[s].buf, 1, inner[s].cap)

\* &self.buf[self.pos..self.cap]
InputSlice(s) == SubSeq(inner[s].buf, inner[s].pos + 1, inner[s].cap)

\* The closure f of each reader.
Codec(s) ==
  IF s = "c"
  THEN compress(inner[s].stream, InputSlice(s), frame[s].dlen, SelectAction(frame[s].eof))
  ELSE decompress(inner[s].stream, InputSlice(s), frame[s].dlen)

\* Faulty variant: done set by any call that produced output.
MarksDone_AnyOutput(rc, read) == read > 0

\* The status codes of the codec, BZ_CONFIG_ERROR up to BZ_STREAM_END.
Statuses == (0 - 9)..4

\* Faulty variant: the last arm written n > 0, so that BZ_OK is an error.
IsCodecError_ZeroIsError(rc) == ~(rc = BZ_OUTBUFF_FULL \/ rc = BZ_STREAM_END \/ rc > 0)

\* Faulty variant: done set by stream end whether or not bytes were produced.
MarksDone_AnyStreamEnd(rc, read) == rc = BZ_STREAM_END

\* The arms of the match on rc.
MarksDone(rc, read) == rc = BZ_STREAM_END /\ read > 0
IsCodecError(rc) == ~(rc = BZ_OUTBUFF_FULL \/ rc = BZ_STREAM_END \/ rc >= 0)

\* Faulty variant: the loop guard without the eof test.
LoopsBack_NoEof(read, eof) == read = 0

\* Faulty variant: the loop guard without the test on the bytes produced.
LoopsBack_OnOutput(read, eof) == ~eof

\* if read == 0 && !eof { continue }
LoopsBack(read, eof) == read = 0 /\ ~eof

\* self.pos += (self.stream.total_in() - before_in) as usize;
AdvancePos(pos, consumed) == pos + consumed

\* The destination after the codec wrote w at its start.
Overwrite(dest, w) == w \o Drop(dest, Len(w))

\* Faulty variant: total_out taken for the bytes produced by this call.
Produced_Total(before_out, after_out) == after_out

\* let read = (self.stream.total_out() - before_out) as usize;
Produced(before_out, after_out) == after_out - before_out

\* The codec call, the counter deltas, the match and the loop guard.
Transform(s) ==
  /\ frame[s].pc = "codec"
  /\ \E res \in {Codec(s)} :
       LET before_in == inner[s].stream.tin
           before_out == inner[s].stream.tout
           consumed == res.s.tin - before_in
           read == Produced(before_out, res.s.tout)
           act == IF s = "c" THEN SelectAction(frame[s].eof) ELSE "none"
           f == [frame[s] EXCEPT !.dest = Overwrite(@, res.out), !.ncodec = @ + 1,
                                 !.rc = res.rc, !.act = act,
                                 !.early = inner[s].stream.tout - frame[s].snap.tout]
       IN /\ hist' = [hist EXCEPT
                        ![s].fed = @ \o Take(InputSlice(s), consumed),
                        ![s].fin = @ \/ (act = "Finish"),
                        ![s].bad = @ \/ IsCodecError(res.rc)]
          /\ inner' = [inner EXCEPT
                         ![s].stream = res.s,
                         ![s].pos = AdvancePos(@, consumed),
                         ![s].done = @ \/ MarksDone(res.rc, read)]
          /\ ended' = [ended EXCEPT ![s] = @ \/ (res.rc = BZ_STREAM_END)]
          /\ frame' = [frame EXCEPT ![s] =
                         IF IsCodecError(res.rc) THEN [f EXCEPT !.pc = "ret", !.res = Err("invalid")]
                         ELSE IF LoopsBack(read, frame[s].eof) THEN [f EXCEPT !.pc = "loop"]
                         ELSE [f EXCEPT !.pc = "ret", !.res = Ok(read)]]
  /\ UNCHANGED <<cfg, r, outp>>

\* -------------------------------------------------------------- return ----
\* The caller receives the result of its read call.
Return ==
  /\ frame[Top].pc = "ret"
  /\ LET f == frame[Top]
     IN outp' = IF f.res.ok THEN outp \o Take(f.dest, f.res.n) ELSE outp
  /\ frame' = [frame EXCEPT ![Top] = Idle]
  /\ UNCHANGED <<cfg, r, inner, ended, hist>>

Next ==
  \/ \E n \in 0..MaxDest : Read(n)
  \/ \E s \in Stages : NoRefill(s)
  \/ \E s \in Stages : Refill(s)
  \/ \E s \in Stages : RefillErr(s)
  \/ \E s \in Stages : RefillCall(s)
  \/ \E s \in Stages : RefillRet(s)
  \/ \E s \in Stages : Transform(s)
  \/ Return

Spec == Init /\ [][Next]_vars

\* ------------------------------------------------------------- claims ----
\* A read call on stage s has its result ready.
Returned(s) == frame[s].pc = "ret"

\* No source read has failed so far.
NoIoFault == r.errs = MaxErrs

\* C1. Round trip: reading a BzDecompressor over a BzCompressor over S never
\* fails, and when a read into a non-empty destination returns Ok(0) the bytes
\* received are exactly S.
C1_RoundTrip ==
  (cfg.mode = "roundtrip" /\ NoIoFault /\ Returned("d")) =>
    /\ frame["d"].res.ok
    /\ (frame["d"].res.n = 0 /\ frame["d"].dlen > 0) => outp = cfg.orig

\* C2. Self-terminating: reading a BzDecompressor over compress(S) followed by
\* a non-empty tail of extra bytes G never fails, and when a read into a non-empty destination
\* returns Ok(0) the bytes received are exactly S.
C2_SelfTerminating ==
  (/\ cfg.mode = "decomp" /\ cfg.cut = Len(cfg.full) /\ cfg.junk # <<>>
   /\ NoIoFault /\ Returned("d")) =>
    /\ frame["d"].res.ok
    /\ (frame["d"].res.n = 0 /\ frame["d"].dlen > 0) => outp = cfg.orig

\* The bytes stage s can ever be given as input.
TotalInput(s) ==
  IF Below(s) = "src" THEN Len(cfg.data) ELSE inner[Below(s)].stream.tout

\* C3. No read call spins: every pass through the loop but the last consumes at
\* least one input byte, and the input is finite, so the number of passes of a
\* call is at most the bytes it consumed plus one.
C3_NoSpin ==
  \A s \in Stages :
    /\ frame[s].iters <= (inner[s].stream.tin - frame[s].snap.tin) + 1
    /\ inner[s].stream.tin <= TotalInput(s)

C3_Witness ==
  \E s \in Stages : Returned(s) /\ frame[s].iters >= 3 /\ frame[s].res.ok

\* C4. Idempotent completion: a read call entered with done set returns Ok(0)
\* for any destination size, reads no source, calls no codec and leaves pos,
\* cap, done and the counters as they were.
C4_IdempotentCompletion ==
  \A s \in Stages :
    (Returned(s) /\ frame[s].snap.done) =>
      /\ frame[s].res = Ok(0)
      /\ frame[s].nsrc = 0
      /\ frame[s].ncodec = 0
      /\ Snap(s) = frame[s].snap

C4_Witness ==
  \E s \in Stages : Returned(s) /\ frame[s].snap.done /\ frame[s].dlen > 0

\* C5. Ok(0) for a non-empty destination means the end of the transformed
\* stream: it is returned only after the codec has reported stream end.
C5_ZeroMeansStreamEnd ==
  (Returned(Top) /\ frame[Top].dlen > 0 /\ frame[Top].res = Ok(0)) => ended[Top]

\* C6. A BzDecompressor read into a zero-length destination returns Ok(0)
\* without entering the loop: no source read, no codec call, and pos, cap,
\* done and the counters are as they were.
C6_DecompressZeroLength ==
  (Returned("d") /\ frame["d"].dlen = 0) =>
    /\ frame["d"].res = Ok(0)
    /\ frame["d"].nsrc = 0
    /\ frame["d"].ncodec = 0
    /\ Snap("d") = frame["d"].snap

\* ... issued in the middle of the stream.
C6_Witness ==
  /\ Returned("d") /\ frame["d"].dlen = 0
  /\ inner["d"].stream.tin > 0 /\ inner["d"].stream.tout > 0
  /\ ~inner["d"].done

\* C7. A BzCompressor read into a zero-length destination returns Ok(0), reads
\* no source and leaves total_in as it was.
C7_CompressZeroLength ==
  (cfg.mode = "comp" /\ NoIoFault /\ Returned("c") /\ frame["c"].dlen = 0) =>
    /\ frame["c"].res = Ok(0)
    /\ frame["c"].nsrc = 0
    /\ inner["c"].stream.tin = frame["c"].snap.tin

\* C8. Empty input: the first read call on a BzDecompressor over the trailer
\* bytes of an empty stream returns Ok(0), whatever the destination size.
C8_EmptyInput ==
  (/\ cfg.mode = "decomp" /\ cfg.orig = <<>> /\ cfg.data = cfg.full
   /\ NoIoFault /\ Returned("d") /\ frame["d"].snap.tin = 0) =>
    frame["d"].res = Ok(0)

\* The decompressor is given a whole frame, possibly with bytes after it.
Intact == cfg.mode = "roundtrip" \/ cfg.data = cfg.full \o cfg.junk

\* C9. total_in and total_out never decrease, and once a decompressor of a
\* whole frame is done its total_in is the length of the compressed
\* representation, not counting bytes that follow it in the scratch buffer or
\* the source.
C9_Counters ==
  /\ [][\A s \in Stages : /\ inner'[s].stream.tin >= inner[s].stream.tin
                          /\ inner'[s].stream.tout >= inner[s].stream.tout]_vars
  /\ [](((inner["d"].done \/ ended["d"]) /\ Intact) => inner["d"].stream.tin = Len(cfg.full))

\* ... with bytes left unread behind the frame.
C9_Witness ==
  /\ inner["d"].done /\ cfg.junk # <<>>
  /\ inner["d"].pos < inner["d"].cap

\* C10. A failed source read is the result of the read call: the step that
\* fails calls no codec and changes none of pos, cap, done and the counters,
\* and leaves pos = cap, so the next call starts with the refill; the error
\* reaches the caller unchanged through an outer reader.
C10_SourceError ==
  /\ [][\A s \in Stages :
          (frame[s].pc = "loop" /\ frame'[s].pc = "ret" /\ ~frame'[s].res.ok) =>
            /\ frame'[s].res = Err("io")
            /\ frame'[s].ncodec = frame[s].ncodec
            /\ inner'[s] = inner[s]
            /\ inner[s].pos = inner[s].cap /\ ~inner[s].done]_vars
  /\ [][\A s \in Stages :
          (frame[s].pc = "await" /\ frame'[s].pc = "ret") =>
            /\ frame'[s].res = frame[Below(s)].res
            /\ frame'[s].ncodec = frame[s].ncodec
            /\ inner'[s] = inner[s]
            /\ inner[s].pos = inner[s].cap /\ ~inner[s].done]_vars

\* ... after the scratch buffer has been filled and drained at least once.
C10_Witness ==
  /\ Returned(Top) /\ frame[Top].res = Err("io")
  /\ inner[Top].cap > 0

\* ------------------------------------------------------------ C11 .. C18 ----
\* The call on stage s has ended in the codec's error.
CodecFailed(s) == frame[s].pc = "ret" /\ frame[s].res = Err("invalid")

\* The last codec call of the call on stage s returned a negative status.
NegativeStatus(s) == frame[s].ncodec > 0 /\ frame[s].rc < 0

\* C11 as stated. A read call fails with InvalidInput exactly when a codec call
\* in it returned a negative status, for every status code there is, and after
\* such a failure no later read call returns a positive byte count.
C11_CodecErrorTerminates ==
  /\ \A s \in Stages : CodecFailed(s) <=> NegativeStatus(s)
  /\ \A rc \in Statuses : IsCodecError(rc) <=> rc < 0
  /\ \A s \in Stages :
       (hist[s].bad /\ frame[s].pc = "ret" /\ frame[s].res.ok) => frame[s].res.n = 0

\* C11, amended. A read call fails with InvalidInput exactly when a codec call
\* in it returned a negative status other than BZ_OUTBUFF_FULL, which the match
\* accepts; no other status yields an error. The failure ends the call with
\* done left false: nothing records it, and a later call drives the codec again.
C11_CodecError ==
  /\ \A s \in Stages : CodecFailed(s) <=> NegativeStatus(s)
  /\ \A rc \in Statuses : IsCodecError(rc) <=> (rc < 0 /\ rc # BZ_OUTBUFF_FULL)
  /\ \A s \in Stages : CodecFailed(s) => ~inner[s].done

\* ... a read call that delivers bytes after an earlier one failed in the codec.
C11_Witness ==
  /\ hist[Top].bad /\ Returned(Top)
  /\ frame[Top].res.ok /\ frame[Top].res.n > 0

\* C12. In every state, also after an error, 0 <= pos <= cap <= the capacity
\* of the scratch buffer, and the scratch buffer holds cap bytes.
C12_CursorInvariant ==
  \A s \in Stages :
    /\ 0 <= inner[s].pos /\ inner[s].pos <= inner[s].cap /\ inner[s].cap <= BufCap
    /\ Len(inner[s].buf) = inner[s].cap

\* ... in a call that failed with the cursor inside a refilled buffer.
C12_Witness ==
  /\ Returned(Top) /\ ~frame[Top].res.ok
  /\ 0 < inner[Top].pos /\ inner[Top].pos < inner[Top].cap
  /\ frame[Top].nsrc > 0

\* The bytes the source of stage s holds in all, in order.
Upstream(s) == IF Below(s) = "src" THEN cfg.data ELSE cfg.full

\* p is an initial part of q.
IsPrefix(p, q) == Len(p) <= Len(q) /\ p = Take(q, Len(p))

\* C13. The scratch buffer is refilled only when pos = cap, at most once per
\* pass of the loop; the bytes obtained from the source are those the codec
\* consumed followed by buf[pos..cap], so that their number is total_in +
\* (cap - pos), and they are the source's bytes in the source's order.
C13_NoByteLost ==
  /\ [](\A s \in Stages :
         /\ hist[s].pulled = hist[s].fed \o InputSlice(s)
         /\ Len(hist[s].fed) = inner[s].stream.tin
         /\ Len(hist[s].pulled) = inner[s].stream.tin + (inner[s].cap - inner[s].pos)
         /\ IsPrefix(hist[s].pulled, Upstream(s))
         /\ frame[s].nsrc <= frame[s].iters)
  /\ [][\A s \in Stages :
          (hist'[s].pulled # hist[s].pulled \/ frame'[s].nsrc # frame[s].nsrc) =>
            (inner[s].pos = inner[s].cap \/ frame'[s].pc = "idle")]_vars

\* ... after a second refill, with part of the buffer still to be consumed.
C13_Witness ==
  \E s \in Stages :
    /\ Len(hist[s].fed) > 0 /\ inner[s].pos > 0 /\ inner[s].pos < inner[s].cap
    /\ Len(hist[s].pulled) > inner[s].cap

\* The step is a codec call on stage s.
CodecCall(s) == frame[s].pc = "codec" /\ frame'[s].ncodec = frame[s].ncodec + 1

\* C14. done never goes back to false, and goes from false to true exactly in
\* a codec call that returns BZ_STREAM_END having produced at least one byte;
\* stream end with no byte produced, BZ_OUTBUFF_FULL and every other status
\* leave it false.
C14_DoneFlag ==
  /\ [][\A s \in Stages :
          /\ inner[s].done => inner'[s].done
          /\ (~inner[s].done /\ inner'[s].done) <=>
               /\ CodecCall(s)
               /\ frame'[s].rc = BZ_STREAM_END
               /\ inner'[s].stream.tout > inner[s].stream.tout]_vars
  /\ [](\A rc \in Statuses, n \in 0..MaxDest :
         MarksDone(rc, n) <=> (rc = BZ_STREAM_END /\ n > 0))

\* ... after a stream end that produced no byte, done still false.
C14_Witness ==
  \E s \in Stages :
    /\ frame[s].ncodec > 0 /\ frame[s].rc = BZ_STREAM_END
    /\ ended[s] /\ ~inner[s].done

\* C15. Every codec call of a BzCompressor is given buf[pos..cap], and is
\* given Finish exactly when the refill of the same pass of the loop returned
\* 0 bytes, Run otherwise; with Finish the slice is empty.
C15_ActionSelection ==
  [][CodecCall("c") =>
       /\ hist'["c"].fed = hist["c"].fed \o
             Take(InputSlice("c"), inner'["c"].stream.tin - inner["c"].stream.tin)
       /\ frame'["c"].act \in {"Run", "Finish"}
       /\ frame'["c"].act = "Finish" <=>
             (frame["c"].eof /\ frame["c"].nsrc > 0 /\ inner["c"].cap = 0)
       /\ frame'["c"].act = "Finish" => InputSlice("c") = <<>>]_vars

\* ... a Finish call after Run calls that consumed the input.
C15_Witness ==
  /\ frame["c"].act = "Finish" /\ frame["c"].ncodec > 1
  /\ Len(hist["c"].fed) > 1

\* C16. After a codec call with a non-negative status the call loops back
\* exactly when the codec call produced no byte and the source did not report
\* exhaustion in this pass; otherwise it returns Ok(produced) at once, so at
\* exhaustion it returns after one codec call even with no byte produced.
C16_LoopGuard ==
  [][\A s \in Stages :
       (CodecCall(s) /\ frame'[s].rc >= 0) =>
         LET produced == inner'[s].stream.tout - inner[s].stream.tout
         IN /\ frame'[s].pc = "loop" <=> (produced = 0 /\ ~frame[s].eof)
            /\ frame'[s].pc # "loop" =>
                 (frame'[s].pc = "ret" /\ frame'[s].res = Ok(produced))
            /\ frame[s].eof => frame'[s].pc = "ret"]_vars

\* ... a call that returned Ok(0) at exhaustion after one codec call.
C16_Witness ==
  \E s \in Stages :
    /\ Returned(s) /\ frame[s].res = Ok(0) /\ frame[s].eof
    /\ frame[s].ncodec = 1 /\ frame[s].rc >= 0

\* C17. The source's exhaustion being permanent, once a BzCompressor has passed
\* Finish every later codec call, in this read call and in later ones, passes
\* Finish with an empty slice: Run never follows Finish.
C17_FinishIsFinal ==
  [][(CodecCall("c") /\ hist["c"].fin) =>
       /\ frame'["c"].act = "Finish"
       /\ InputSlice("c") = <<>>
       /\ r.rem = <<>> /\ frame["c"].eof]_vars

\* ... Finish passed again in a read call that began after Finish was passed.
C17_Witness ==
  /\ frame["c"].snap.fin
  /\ frame["c"].ncodec > 0 /\ frame["c"].act = "Finish"

\* C18. The n of every Ok(n) is the number of bytes the last codec call of
\* that read call wrote, the codec calls before it in the call wrote none, and
\* n is at most the destination's length; so as long as no read call has
\* failed, the counts returned to the caller add up to total_out.
C18_NothingUnreported ==
  /\ \A s \in Stages :
       /\ (Returned(s) /\ frame[s].res.ok) =>
            /\ frame[s].res.n = inner[s].stream.tout - frame[s].snap.tout
            /\ frame[s].res.n <= frame[s].dlen
            /\ frame[s].early = 0
       /\ frame[s].pc \notin {"idle", "ret"} => inner[s].stream.tout = frame[s].snap.tout
  /\ (frame[Top].pc = "idle" /\ NoIoFault /\ ~hist[Top].bad) =>
       Len(outp) = inner[Top].stream.tout

\* ... a second read call that delivered bytes after loop passes without any.
C18_Witness ==
  /\ Returned(Top) /\ frame[Top].res.ok /\ frame[Top].res.n > 0
  /\ frame[Top].ncodec > 1 /\ frame[Top].snap.tout > 0
====
